---- MODULE Spec2Model ----
(***************************************************************************)
(* Model of package trace (daemon/logging/trace/trace.go): the tree of     *)
(* task and span nodes, WithTask / WithSpan and the DoneFuncs they return, *)
(* executed by concurrent goroutines at the granularity of the lock        *)
(* operations and of the calls that touch shared state.                    *)
(***************************************************************************)
EXTENDS Integers, Naturals, Sequences, FiniteSets, TLC

\* ------------------------------------------------------------------ bounds
NumThreads == 2
MaxNodes == 3

Threads == 1..NumThreads
NodeIds == 1..MaxNodes
Nil == 0
NoThread == 0
ZeroTime == 0
TaskNames == {"sync"}
SpanNames == {"x"}

VARIABLES
    nodes,             \* the traceNode objects that exist
    annotation,        \* traceNode.annotation
    parentTask,        \* traceNode.parentTask
    parentSpan,        \* traceNode.parentSpan
    activeChildTasks,  \* traceNode.activeChildTasks
    activeChildSpan,   \* traceNode.activeChildSpan
    startedAt,         \* traceNode.startedAt
    endedAt,           \* traceNode.endedAt
    mtx,               \* traceNode.mtx: the goroutine holding it, or NoThread
    activeTasks,       \* metrics.activeTasks
    taskNamer,         \* the suffixes in use, per task name
    sink,              \* how often each chrometrace event and span callback was emitted
    pc,                \* each goroutine's position
    this,              \* each goroutine's `this` (WithTask, WithSpan, DoneFuncs)
    lParentTask,       \* WithTask's local parentTask before `this` exists
    thisParent,        \* WithTask's local thisParent
    res,               \* how the running call ends: "", "ended", "already", a panic
    aborted            \* some call has panicked

treeVars == <<nodes, annotation, parentTask, parentSpan, activeChildTasks,
              activeChildSpan, startedAt, endedAt>>
extVars == <<activeTasks, taskNamer, sink>>
localVars == <<this, lParentTask, thisParent, res>>
vars == <<treeVars, mtx, extVars, pc, localVars, aborted>>

Panics == {"TaskHasActiveChildren", "NegativeChildTasks", "AlreadyActiveChildSpan",
           "SpanHasActiveChild", "NotInsideTask", "ActiveChildSpanChanged"}

\* ------------------------------------------------------------------ helpers
IsTask(n) == parentSpan[n] = Nil
IsSpan(n) == parentSpan[n] # Nil
Ended(n) == endedAt[n] # ZeroTime

\* the positions of WithTask and WithSpan: `this` is not yet returned to the caller
BeginPcs == {"wt_lock", "wt_loop", "wt_lockparent", "wt_unlockthis", "wt_new",
             "wt_inc", "wt_unlock", "wt_sink", "wt_gauge", "wt_ret",
             "ws_lock", "ws_unlock", "ws_sink", "ws_cb"}

\* the positions of WithTask before it allocates `this`
PreAllocPcs == {"wt_lock", "wt_loop", "wt_lockparent", "wt_unlockthis", "wt_new"}

\* nodes whose context and DoneFunc have been returned to a caller
Returned == {n \in nodes : \A t \in Threads : ~(this[t] = n /\ pc[t] \in BeginPcs)}

\* a new traceNode can still be allocated without exceeding the arena
CanAllocate ==
    Cardinality(nodes) + Cardinality({t \in Threads : pc[t] \in PreAllocPcs}) < MaxNodes

FreshNode == CHOOSE n \in NodeIds \ nodes : \A m \in NodeIds \ nodes : n <= m

\* chainlock.L
Lock(t, n) == mtx[n] = NoThread /\ mtx' = [mtx EXCEPT ![n] = t]
Unlock(t, n) == mtx' = [mtx EXCEPT ![n] = NoThread]

\* uniqueConcurrentTaskNamer: lowest free suffix
LowestFree(used) == CHOOSE i \in 0..MaxNodes : i \notin used /\ \A j \in 0..MaxNodes : j \notin used => i <= j

\* time.Now(): a logical clock that advances whenever a node ends
Now == 1 + Cardinality({n \in nodes : Ended(n)})

\* chrometrace* and the span callbacks: the event is counted
EventKinds == {"BeginTask", "EndTask", "BeginSpan", "CallbackBeginSpan",
               "EndSpan", "CallbackEndSpan"}
Emit(e) == [sink EXCEPT ![e] = @ + 1]

Goto(t, l) == pc' = [pc EXCEPT ![t] = l]

Return(t) ==
    /\ pc' = [pc EXCEPT ![t] = "idle"]
    /\ this' = [this EXCEPT ![t] = Nil]
    /\ res' = [res EXCEPT ![t] = ""]

Init ==
    /\ nodes = {}
    /\ annotation = [n \in NodeIds |-> <<>>]
    /\ parentTask = [n \in NodeIds |-> Nil]
    /\ parentSpan = [n \in NodeIds |-> Nil]
    /\ activeChildTasks = [n \in NodeIds |-> 0]
    /\ activeChildSpan = [n \in NodeIds |-> Nil]
    /\ startedAt = [n \in NodeIds |-> ZeroTime]
    /\ endedAt = [n \in NodeIds |-> ZeroTime]
    /\ mtx = [n \in NodeIds |-> NoThread]
    /\ activeTasks = 0
    /\ taskNamer = [name \in TaskNames |-> {}]
    /\ sink = [e \in EventKinds \X NodeIds |-> 0]
    /\ pc = [t \in Threads |-> "idle"]
    /\ this = [t \in Threads |-> Nil]
    /\ lParentTask = [t \in Threads |-> Nil]
    /\ thisParent = [t \in Threads |-> Nil]
    /\ res = [t \in Threads |-> ""]
    /\ aborted = FALSE

\* ------------------------------------------------------------------ WithTask
\* lines 160-169: the task of the node the context carries
ContextTask(ctx) ==
    IF ctx = Nil THEN Nil
    ELSE IF parentSpan[ctx] # Nil THEN parentTask[ctx] ELSE ctx

\* the walk never skips an ended ancestor
SkipsAncestor_Never(p) == FALSE

\* line 174: the loop condition of the walk to the first ancestor that has not ended
SkipsAncestor(p) == p # Nil /\ Ended(p)

\* lines 158-171: WithTask is called with a context carrying no node or a returned node
WithTaskCall(t) ==
    /\ pc[t] = "idle"
    /\ CanAllocate
    /\ \E ctx \in {Nil} \cup Returned :
        /\ lParentTask' = [lParentTask EXCEPT ![t] = ContextTask(ctx)]
        /\ Goto(t, IF ContextTask(ctx) # Nil THEN "wt_lock" ELSE "wt_new")
    /\ UNCHANGED <<treeVars, mtx, extVars, this, thisParent, res, aborted>>

\* the walk starts without locking the first candidate (line 172 missing)
WithTaskLockFirst_NoLock(t) ==
    /\ pc[t] = "wt_lock"
    /\ Goto(t, "wt_loop")
    /\ UNCHANGED <<treeVars, mtx, extVars, localVars, aborted>>

\* line 172
WithTaskLockFirst(t) ==
    /\ pc[t] = "wt_lock"
    /\ Lock(t, lParentTask[t])
    /\ Goto(t, "wt_loop")
    /\ UNCHANGED <<treeVars, extVars, localVars, aborted>>

\* lines 174-178: one test of the loop condition and the step to the parent
WithTaskLoop(t) ==
    /\ pc[t] = "wt_loop"
    /\ IF SkipsAncestor(lParentTask[t])
         THEN /\ thisParent' = [thisParent EXCEPT ![t] = lParentTask[t]]
              /\ lParentTask' = [lParentTask EXCEPT ![t] = parentTask[lParentTask[t]]]
              /\ Goto(t, IF parentTask[lParentTask[t]] # Nil
                           THEN "wt_lockparent" ELSE "wt_unlockthis")
         ELSE /\ Goto(t, "wt_new")
              /\ UNCHANGED <<thisParent, lParentTask>>
    /\ UNCHANGED <<treeVars, mtx, extVars, this, res, aborted>>

\* line 179: the parent is locked while thisParent is still held
WithTaskLockParent(t) ==
    /\ pc[t] = "wt_lockparent"
    /\ Lock(t, lParentTask[t])
    /\ Goto(t, "wt_unlockthis")
    /\ UNCHANGED <<treeVars, extVars, localVars, aborted>>

\* line 181
WithTaskUnlockThisParent(t) ==
    /\ pc[t] = "wt_unlockthis"
    /\ Unlock(t, thisParent[t])
    /\ thisParent' = [thisParent EXCEPT ![t] = Nil]
    /\ Goto(t, "wt_loop")
    /\ UNCHANGED <<treeVars, extVars, this, lParentTask, res, aborted>>

\* lines 185-197: the unique name and the new task node
WithTaskNew(t) ==
    /\ pc[t] = "wt_new"
    /\ \E name \in TaskNames :
        LET n == FreshNode
            suffix == LowestFree(taskNamer[name])
        IN /\ taskNamer' = [taskNamer EXCEPT ![name] = @ \cup {suffix}]
           /\ nodes' = nodes \cup {n}
           /\ annotation' = [annotation EXCEPT ![n] = <<name, suffix>>]
           /\ parentTask' = [parentTask EXCEPT ![n] = lParentTask[t]]
           /\ parentSpan' = [parentSpan EXCEPT ![n] = Nil]
           /\ activeChildTasks' = [activeChildTasks EXCEPT ![n] = 0]
           /\ activeChildSpan' = [activeChildSpan EXCEPT ![n] = Nil]
           /\ startedAt' = [startedAt EXCEPT ![n] = Now]
           /\ endedAt' = [endedAt EXCEPT ![n] = ZeroTime]
           /\ this' = [this EXCEPT ![t] = n]
    /\ lParentTask' = [lParentTask EXCEPT ![t] = Nil]
    /\ Goto(t, IF lParentTask[t] # Nil THEN "wt_inc" ELSE "wt_sink")
    /\ UNCHANGED <<mtx, activeTasks, sink, thisParent, res, aborted>>

\* the increment of line 200 is forgotten
WithTaskInc_Forgotten(t) ==
    /\ pc[t] = "wt_inc"
    /\ Goto(t, "wt_unlock")
    /\ UNCHANGED <<treeVars, mtx, extVars, localVars, aborted>>

\* line 200
WithTaskInc(t) ==
    /\ pc[t] = "wt_inc"
    /\ activeChildTasks' = [activeChildTasks EXCEPT ![parentTask[this[t]]] = @ + 1]
    /\ Goto(t, "wt_unlock")
    /\ UNCHANGED <<nodes, annotation, parentTask, parentSpan, activeChildSpan,
                   startedAt, endedAt, mtx, extVars, localVars, aborted>>

\* the unlock of line 201 is forgotten
WithTaskUnlock_Forgotten(t) ==
    /\ pc[t] = "wt_unlock"
    /\ Goto(t, "wt_sink")
    /\ UNCHANGED <<treeVars, mtx, extVars, localVars, aborted>>

\* line 201
WithTaskUnlock(t) ==
    /\ pc[t] = "wt_unlock"
    /\ Unlock(t, parentTask[this[t]])
    /\ Goto(t, "wt_sink")
    /\ UNCHANGED <<treeVars, extVars, localVars, aborted>>

\* line 206: chrometraceBeginTask
WithTaskSink(t) ==
    /\ pc[t] = "wt_sink"
    /\ sink' = Emit(<<"BeginTask", this[t]>>)
    /\ Goto(t, "wt_gauge")
    /\ UNCHANGED <<treeVars, mtx, activeTasks, taskNamer, localVars, aborted>>

\* line 208
WithTaskGauge(t) ==
    /\ pc[t] = "wt_gauge"
    /\ activeTasks' = activeTasks + 1
    /\ Goto(t, "wt_ret")
    /\ UNCHANGED <<treeVars, mtx, taskNamer, sink, localVars, aborted>>

\* line 249: the context and the DoneFunc are returned
WithTaskReturn(t) ==
    /\ pc[t] = "wt_ret"
    /\ Return(t)
    /\ UNCHANGED <<treeVars, mtx, extVars, lParentTask, thisParent, aborted>>

\* ------------------------------------------------------------------ panics
\* panic(...): the deferred unlocks of the frame run next
Panic(t, kind, l) ==
    /\ res' = [res EXCEPT ![t] = kind]
    /\ aborted' = TRUE
    /\ Goto(t, l)

\* the panic has left the call (the caller recovers from it)
PanicReturn(t) ==
    /\ pc[t] = "panic"
    /\ Return(t)
    /\ UNCHANGED <<treeVars, mtx, extVars, lParentTask, thisParent, aborted>>

\* ------------------------------------------------------------------ endTaskFunc
\* the check of line 220 is missing
TaskHasActiveChildren_Never(n) == FALSE

\* line 220
TaskHasActiveChildren(n) == activeChildTasks[n] # 0

\* the check of line 225 is missing
TaskAlreadyEnded_Never(n) == FALSE

\* line 225
TaskAlreadyEnded(n) == Ended(n)

\* line 210: the DoneFunc of a returned task is called
EndTaskCall(t) ==
    /\ pc[t] = "idle"
    /\ \E n \in Returned :
        /\ IsTask(n)
        /\ this' = [this EXCEPT ![t] = n]
        /\ Goto(t, IF parentTask[n] # Nil THEN "et_lockparent" ELSE "et_lockthis")
    /\ UNCHANGED <<treeVars, mtx, extVars, lParentTask, thisParent, res, aborted>>

\* lines 215-217
EndTaskLockParent(t) ==
    /\ pc[t] = "et_lockparent"
    /\ Lock(t, parentTask[this[t]])
    /\ Goto(t, "et_lockthis")
    /\ UNCHANGED <<treeVars, extVars, localVars, aborted>>

\* lines 218-228: lock this, the two checks, endedAt
EndTaskLockThis(t) ==
    LET n == this[t] IN
    /\ pc[t] = "et_lockthis"
    /\ Lock(t, n)
    /\ IF TaskHasActiveChildren(n)
         THEN /\ Panic(t, "TaskHasActiveChildren", "et_unlockthis")
              /\ UNCHANGED endedAt
         ELSE IF TaskAlreadyEnded(n)
         THEN /\ res' = [res EXCEPT ![t] = "already"]
              /\ Goto(t, "et_unlockthis")
              /\ UNCHANGED <<endedAt, aborted>>
         ELSE /\ endedAt' = [endedAt EXCEPT ![n] = Now]
              /\ res' = [res EXCEPT ![t] = "ended"]
              /\ Goto(t, IF parentTask[n] # Nil THEN "et_dec" ELSE "et_unlockthis")
              /\ UNCHANGED aborted
    /\ UNCHANGED <<nodes, annotation, parentTask, parentSpan, activeChildTasks,
                   activeChildSpan, startedAt, extVars, this, lParentTask, thisParent>>

\* the decrement of line 230 is applied to the ending task itself
EndTaskDec_OnThis(t) ==
    /\ pc[t] = "et_dec"
    /\ activeChildTasks' = [activeChildTasks EXCEPT ![this[t]] = @ - 1]
    /\ Goto(t, "et_unlockthis")
    /\ UNCHANGED <<nodes, annotation, parentTask, parentSpan, activeChildSpan,
                   startedAt, endedAt, mtx, extVars, localVars, aborted>>

\* lines 230-235
EndTaskDec(t) ==
    LET p == parentTask[this[t]] IN
    /\ pc[t] = "et_dec"
    /\ activeChildTasks' = [activeChildTasks EXCEPT ![p] = @ - 1]
    /\ IF activeChildTasks[p] - 1 < 0
         THEN Panic(t, "NegativeChildTasks", "et_unlockthis")
         ELSE Goto(t, "et_unlockthis") /\ UNCHANGED <<res, aborted>>
    /\ UNCHANGED <<nodes, annotation, parentTask, parentSpan, activeChildSpan,
                   startedAt, endedAt, mtx, extVars, this, lParentTask, thisParent>>

\* the early return of lines 238-240 is missing
EndTaskLeave_NoEarlyReturn(t) ==
    IF res[t] \in {"ended", "already"} THEN Goto(t, "et_sink") /\ UNCHANGED <<this, res>>
    ELSE Goto(t, "panic") /\ UNCHANGED <<this, res>>

\* lines 237-240: the inner function has returned or panicked
EndTaskLeave(t) ==
    IF res[t] = "ended" THEN Goto(t, "et_sink") /\ UNCHANGED <<this, res>>
    ELSE IF res[t] = "already" THEN Return(t)
    ELSE Goto(t, "panic") /\ UNCHANGED <<this, res>>

\* line 218, deferred
EndTaskUnlockThis(t) ==
    /\ pc[t] = "et_unlockthis"
    /\ Unlock(t, this[t])
    /\ IF parentTask[this[t]] # Nil
         THEN Goto(t, "et_unlockparent") /\ UNCHANGED <<this, res>>
         ELSE EndTaskLeave(t)
    /\ UNCHANGED <<treeVars, extVars, lParentTask, thisParent, aborted>>

\* line 216, deferred
EndTaskUnlockParent(t) ==
    /\ pc[t] = "et_unlockparent"
    /\ Unlock(t, parentTask[this[t]])
    /\ EndTaskLeave(t)
    /\ UNCHANGED <<treeVars, extVars, lParentTask, thisParent, aborted>>

\* line 242: chrometraceEndTask
EndTaskSink(t) ==
    /\ pc[t] = "et_sink"
    /\ sink' = Emit(<<"EndTask", this[t]>>)
    /\ Goto(t, "et_gauge")
    /\ UNCHANGED <<treeVars, mtx, activeTasks, taskNamer, localVars, aborted>>

\* line 244
EndTaskGauge(t) ==
    /\ pc[t] = "et_gauge"
    /\ activeTasks' = activeTasks - 1
    /\ Goto(t, "et_namedone")
    /\ UNCHANGED <<treeVars, mtx, taskNamer, sink, localVars, aborted>>

\* lines 246-247: taskNameDone, and the DoneFunc returns
EndTaskNameDone(t) ==
    LET name == annotation[this[t]][1]
        suffix == annotation[this[t]][2]
    IN /\ pc[t] = "et_namedone"
       /\ taskNamer' = [taskNamer EXCEPT ![name] = @ \ {suffix}]
       /\ Return(t)
       /\ UNCHANGED <<treeVars, mtx, activeTasks, sink, lParentTask, thisParent, aborted>>

\* ------------------------------------------------------------------ WithSpan
\* the test of line 262 is missing: the parent's parentTask is always copied
SpanTask_Copied(ctx) == parentTask[ctx]

\* lines 262-266: the task a new span belongs to
SpanTask(ctx) == IF parentSpan[ctx] = Nil THEN ctx ELSE parentTask[ctx]

\* the check of line 283 is missing
HasActiveChildSpan_Never(p) == FALSE

\* line 283
HasActiveChildSpan(p) == activeChildSpan[p] # Nil

\* the check of lines 260, 267-269 comes after the node is created
WithSpanNoTask_NodeCreated(t) ==
    /\ pc[t] = "idle"
    /\ CanAllocate
    /\ nodes' = nodes \cup {FreshNode}
    /\ Panic(t, "NotInsideTask", "panic")
    /\ UNCHANGED <<annotation, parentTask, parentSpan, activeChildTasks, activeChildSpan,
                   startedAt, endedAt, mtx, extVars, this, lParentTask, thisParent>>

\* lines 257-269: WithSpan is called without a node in the context
WithSpanNoTask(t) ==
    /\ pc[t] = "idle"
    /\ Panic(t, "NotInsideTask", "panic")
    /\ UNCHANGED <<treeVars, mtx, extVars, this, lParentTask, thisParent>>

\* lines 257-280: WithSpan is called with the context of a returned node
WithSpanCall(t) ==
    /\ pc[t] = "idle"
    /\ CanAllocate
    /\ \E ctx \in Returned, a \in SpanNames :
        LET n == FreshNode IN
        /\ nodes' = nodes \cup {n}
        /\ annotation' = [annotation EXCEPT ![n] = <<a>>]
        /\ parentTask' = [parentTask EXCEPT ![n] = SpanTask(ctx)]
        /\ parentSpan' = [parentSpan EXCEPT ![n] = ctx]
        /\ activeChildSpan' = [activeChildSpan EXCEPT ![n] = Nil]
        /\ startedAt' = [startedAt EXCEPT ![n] = Now]
        /\ endedAt' = [endedAt EXCEPT ![n] = ZeroTime]
        /\ this' = [this EXCEPT ![t] = n]
    /\ Goto(t, "ws_lock")
    /\ UNCHANGED <<activeChildTasks, mtx, extVars, lParentTask, thisParent, res, aborted>>

\* lines 282-286: HoldWhile locks the parent and runs the function
WithSpanLock(t) ==
    LET p == parentSpan[this[t]] IN
    /\ pc[t] = "ws_lock"
    /\ Lock(t, p)
    /\ IF HasActiveChildSpan(p)
         THEN /\ Panic(t, "AlreadyActiveChildSpan", "ws_unlock")
              /\ UNCHANGED activeChildSpan
         ELSE /\ activeChildSpan' = [activeChildSpan EXCEPT ![p] = this[t]]
              /\ Goto(t, "ws_unlock")
              /\ UNCHANGED <<res, aborted>>
    /\ UNCHANGED <<nodes, annotation, parentTask, parentSpan, activeChildTasks,
                   startedAt, endedAt, extVars, this, lParentTask, thisParent>>

\* line 287: HoldWhile unlocks; after a panic the unattached node is garbage
WithSpanUnlock(t) ==
    LET n == this[t] IN
    /\ pc[t] = "ws_unlock"
    /\ Unlock(t, parentSpan[n])
    /\ IF res[t] \in Panics
         THEN /\ nodes' = nodes \ {n}
              /\ annotation' = [annotation EXCEPT ![n] = <<>>]
              /\ parentTask' = [parentTask EXCEPT ![n] = Nil]
              /\ parentSpan' = [parentSpan EXCEPT ![n] = Nil]
              /\ startedAt' = [startedAt EXCEPT ![n] = ZeroTime]
              /\ this' = [this EXCEPT ![t] = Nil]
              /\ Goto(t, "panic")
         ELSE /\ Goto(t, "ws_sink")
              /\ UNCHANGED <<nodes, annotation, parentTask, parentSpan, startedAt, this>>
    /\ UNCHANGED <<activeChildTasks, activeChildSpan, endedAt, extVars,
                   lParentTask, thisParent, res, aborted>>

\* line 290: chrometraceBeginSpan
WithSpanSink(t) ==
    /\ pc[t] = "ws_sink"
    /\ sink' = Emit(<<"BeginSpan", this[t]>>)
    /\ Goto(t, "ws_cb")
    /\ UNCHANGED <<treeVars, mtx, activeTasks, taskNamer, localVars, aborted>>

\* lines 291, 316: callbackBeginSpan, and the context and the DoneFunc are returned
WithSpanCallback(t) ==
    /\ pc[t] = "ws_cb"
    /\ sink' = Emit(<<"CallbackBeginSpan", this[t]>>)
    /\ Return(t)
    /\ UNCHANGED <<treeVars, mtx, activeTasks, taskNamer, lParentTask, thisParent, aborted>>

\* ------------------------------------------------------------------ WithSpan's DoneFunc
\* line 296
ActiveChildSpanChanged(n) == activeChildSpan[parentSpan[n]] # n /\ ~Ended(n)

\* the check of line 301 is missing
SpanHasActiveChild_Never(n) == FALSE

\* line 301
SpanHasActiveChild(n) == activeChildSpan[n] # Nil

\* line 305
SpanAlreadyEnded(n) == Ended(n)

\* line 293: the DoneFunc of a returned span is called
EndSpanCall(t) ==
    /\ pc[t] = "idle"
    /\ \E n \in Returned :
        /\ IsSpan(n)
        /\ this' = [this EXCEPT ![t] = n]
    /\ Goto(t, "es_lockparent")
    /\ UNCHANGED <<treeVars, mtx, extVars, lParentTask, thisParent, res, aborted>>

\* lines 295-298
EndSpanLockParent(t) ==
    /\ pc[t] = "es_lockparent"
    /\ Lock(t, parentSpan[this[t]])
    /\ IF ActiveChildSpanChanged(this[t])
         THEN Panic(t, "ActiveChildSpanChanged", "es_unlockparent")
         ELSE Goto(t, "es_lockthis") /\ UNCHANGED <<res, aborted>>
    /\ UNCHANGED <<treeVars, extVars, this, lParentTask, thisParent>>

\* lines 300-310
EndSpanLockThis(t) ==
    LET n == this[t] IN
    /\ pc[t] = "es_lockthis"
    /\ Lock(t, n)
    /\ IF SpanHasActiveChild(n)
         THEN /\ Panic(t, "SpanHasActiveChild", "es_unlockthis")
              /\ UNCHANGED <<activeChildSpan, endedAt>>
         ELSE IF SpanAlreadyEnded(n)
         THEN /\ res' = [res EXCEPT ![t] = "already"]
              /\ Goto(t, "es_unlockthis")
              /\ UNCHANGED <<activeChildSpan, endedAt, aborted>>
         ELSE /\ activeChildSpan' = [activeChildSpan EXCEPT ![parentSpan[n]] = Nil]
              /\ endedAt' = [endedAt EXCEPT ![n] = Now]
              /\ res' = [res EXCEPT ![t] = "ended"]
              /\ Goto(t, "es_sink")
              /\ UNCHANGED aborted
    /\ UNCHANGED <<nodes, annotation, parentTask, parentSpan, activeChildTasks,
                   startedAt, extVars, this, lParentTask, thisParent>>

\* line 312: chrometraceEndSpan
EndSpanSink(t) ==
    /\ pc[t] = "es_sink"
    /\ sink' = Emit(<<"EndSpan", this[t]>>)
    /\ Goto(t, "es_cb")
    /\ UNCHANGED <<treeVars, mtx, activeTasks, taskNamer, localVars, aborted>>

\* line 313: callbackEndSpan
EndSpanCallback(t) ==
    /\ pc[t] = "es_cb"
    /\ sink' = Emit(<<"CallbackEndSpan", this[t]>>)
    /\ Goto(t, "es_unlockthis")
    /\ UNCHANGED <<treeVars, mtx, activeTasks, taskNamer, localVars, aborted>>

\* line 300, deferred
EndSpanUnlockThis(t) ==
    /\ pc[t] = "es_unlockthis"
    /\ Unlock(t, this[t])
    /\ Goto(t, "es_unlockparent")
    /\ UNCHANGED <<treeVars, extVars, localVars, aborted>>

\* line 295, deferred: the DoneFunc returns or the panic leaves it
EndSpanUnlockParent(t) ==
    /\ pc[t] = "es_unlockparent"
    /\ Unlock(t, parentSpan[this[t]])
    /\ IF res[t] \in Panics
         THEN Goto(t, "panic") /\ UNCHANGED <<this, res>>
         ELSE Return(t)
    /\ UNCHANGED <<treeVars, extVars, lParentTask, thisParent, aborted>>

\* ------------------------------------------------------------------ specification
Next ==
    \/ \E t \in Threads : WithTaskCall(t)
    \/ \E t \in Threads : WithTaskLockFirst(t)
    \/ \E t \in Threads : WithTaskLoop(t)
    \/ \E t \in Threads : WithTaskLockParent(t)
    \/ \E t \in Threads : WithTaskUnlockThisParent(t)
    \/ \E t \in Threads : WithTaskNew(t)
    \/ \E t \in Threads : WithTaskInc(t)
    \/ \E t \in Threads : WithTaskUnlock(t)
    \/ \E t \in Threads : WithTaskSink(t)
    \/ \E t \in Threads : WithTaskGauge(t)
    \/ \E t \in Threads : WithTaskReturn(t)
    \/ \E t \in Threads : EndTaskCall(t)
    \/ \E t \in Threads : EndTaskLockParent(t)
    \/ \E t \in Threads : EndTaskLockThis(t)
    \/ \E t \in Threads : EndTaskDec(t)
    \/ \E t \in Threads : EndTaskUnlockThis(t)
    \/ \E t \in Threads : EndTaskUnlockParent(t)
    \/ \E t \in Threads : EndTaskSink(t)
    \/ \E t \in Threads : EndTaskGauge(t)
    \/ \E t \in Threads : EndTaskNameDone(t)
    \/ \E t \in Threads : WithSpanNoTask(t)
    \/ \E t \in Threads : WithSpanCall(t)
    \/ \E t \in Threads : WithSpanLock(t)
    \/ \E t \in Threads : WithSpanUnlock(t)
    \/ \E t \in Threads : WithSpanSink(t)
    \/ \E t \in Threads : WithSpanCallback(t)
    \/ \E t \in Threads : EndSpanCall(t)
    \/ \E t \in Threads : EndSpanLockParent(t)
    \/ \E t \in Threads : EndSpanLockThis(t)
    \/ \E t \in Threads : EndSpanSink(t)
    \/ \E t \in Threads : EndSpanCallback(t)
    \/ \E t \in Threads : EndSpanUnlockThis(t)
    \/ \E t \in Threads : EndSpanUnlockParent(t)
    \/ \E t \in Threads : PanicReturn(t)

Spec == Init /\ [][Next]_vars

\* ------------------------------------------------------------------ derived notions
\* the node locks goroutine t holds
Held(t) == {n \in NodeIds : mtx[n] = t}

\* the node lock goroutine t is about to acquire, Nil if none
Wants(t) ==
    CASE pc[t] \in {"wt_lock", "wt_lockparent"} -> lParentTask[t]
      [] pc[t] = "et_lockparent" -> parentTask[this[t]]
      [] pc[t] \in {"et_lockthis", "es_lockthis"} -> this[t]
      [] pc[t] \in {"ws_lock", "es_lockparent"} -> parentSpan[this[t]]
      [] OTHER -> Nil

\* goroutine t waits for a lock another goroutine (or t itself) holds
Blocked(t) == Wants(t) # Nil /\ mtx[Wants(t)] # NoThread

\* the goroutine reached from t by following k waits-for edges, NoThread if the chain ends
RECURSIVE Follow(_, _)
Follow(t, k) ==
    IF k = 0 THEN t
    ELSE LET u == Follow(t, k - 1)
         IN IF u # NoThread /\ Blocked(u) THEN mtx[Wants(u)] ELSE NoThread

InWaitCycle(t) == \E k \in 1..NumThreads : Follow(t, k) = t

\* goroutine t has taken a step
Stepped(t) == pc'[t] # pc[t]

TaskNodes == {n \in nodes : IsTask(n)}

\* span nodes that WithSpan has attached to their parent (line 286)
AttachedSpans ==
    {n \in nodes : IsSpan(n) /\ \A t \in Threads :
        ~(this[t] = n /\ (pc[t] = "ws_lock" \/ (pc[t] = "ws_unlock" /\ res[t] \in Panics)))}

ActiveChildTasksOf(p) == {c \in TaskNodes : parentTask[c] = p /\ ~Ended(c)}
ActiveChildSpansOf(p) == {c \in AttachedSpans : parentSpan[c] = p /\ ~Ended(c)}

\* the number of events of one kind the sink has received for node n
Events(kind, n) == sink[<<kind, n>>]

\* ------------------------------------------------------------------ C1
\* C1: no interleaving of WithTask, WithSpan and their DoneFuncs reaches a
\* deadlock: no set of goroutines ever waits in a cycle on node locks.
C1_NoLockCycle == \A t \in Threads : ~InWaitCycle(t)

\* ------------------------------------------------------------------ C2
\* C2: a task cannot end while a child task is active: every task node that has
\* not ended and has a parent task has a parent task that has not ended.
C2_ActiveChildHasActiveParent ==
    \A n \in TaskNodes :
        (~Ended(n) /\ parentTask[n] # Nil) => ~Ended(parentTask[n])

\* the DoneFunc of a task with an active child task has been called and refused
C2_Witness ==
    \E t \in Threads :
        /\ pc[t] = "panic"
        /\ res[t] = "TaskHasActiveChildren"
        /\ ActiveChildTasksOf(this[t]) # {}
        /\ ~Ended(this[t])

\* ------------------------------------------------------------------ C3
\* C3: while a task's lock is free its activeChildTasks is the number of its
\* child tasks that have not ended; the counter is never negative, the
\* negative-count panic never fires, and the counter of an ended task is 0.
C3_ActiveChildTasksCount ==
    /\ \A n \in TaskNodes :
        /\ mtx[n] = NoThread => activeChildTasks[n] = Cardinality(ActiveChildTasksOf(n))
        /\ activeChildTasks[n] >= 0
        /\ Ended(n) => activeChildTasks[n] = 0
    /\ \A t \in Threads : res[t] # "NegativeChildTasks"

\* a task with one ended and one active child task, its lock free
C3_Witness ==
    \E n \in TaskNodes :
        /\ mtx[n] = NoThread
        /\ activeChildTasks[n] = 1
        /\ \E c \in TaskNodes : parentTask[c] = n /\ Ended(c)

\* ------------------------------------------------------------------ C4
\* C4: the DoneFunc of a task whose activeChildTasks is positive when it is
\* checked panics with TaskHasActiveChildren and changes neither the tree nor
\* the gauge, the namer or the sink, and it leaves with both locks released;
\* when the counter is 0 and the task has not ended, the DoneFunc sets endedAt.
C4_EndTaskWithActiveChildren ==
    /\ [](\A t \in Threads : pc[t] = "panic" => Held(t) = {})
    /\ [][\A t \in Threads :
            (pc[t] = "et_lockthis" /\ Stepped(t)) =>
                IF activeChildTasks[this[t]] > 0
                  THEN /\ res'[t] = "TaskHasActiveChildren"
                       /\ UNCHANGED <<treeVars, extVars>>
                  ELSE ~Ended(this[t]) =>
                       /\ res'[t] = "ended"
                       /\ endedAt'[this[t]] # ZeroTime]_vars
    /\ [][\A t \in Threads :
            (res[t] = "TaskHasActiveChildren" /\ Stepped(t)) =>
                UNCHANGED <<treeVars, extVars>>]_vars

\* a DoneFunc call was refused because of an active child task, and after the
\* child ended another call of the same DoneFunc has ended the task
C4_Witness ==
    \E t \in Threads :
        /\ pc[t] = "panic"
        /\ res[t] = "TaskHasActiveChildren"
        /\ Ended(this[t])
        /\ \E c \in TaskNodes : parentTask[c] = this[t] /\ Ended(c)

\* ------------------------------------------------------------------ C5
\* C5: of all calls of a task's DoneFunc exactly one performs the end (one
\* EndTask event, one pass through the decrements); every other call finds the
\* task ended, does not panic and changes nothing; endedAt is set only once.
C5_EndTaskIdempotent ==
    /\ [](\A n \in TaskNodes :
            Events("EndTask", n)
            + Cardinality({t \in Threads :
                  /\ this[t] = n
                  /\ res[t] = "ended"
                  /\ pc[t] \in {"et_dec", "et_unlockthis", "et_unlockparent", "et_sink"}})
            = IF Ended(n) THEN 1 ELSE 0)
    /\ [][\A t \in Threads :
            (pc[t] = "et_lockthis" /\ Stepped(t) /\ Ended(this[t])) =>
                /\ res'[t] = "already"
                /\ UNCHANGED <<treeVars, extVars, aborted>>]_vars
    /\ [][\A t \in Threads :
            (this[t] \in TaskNodes /\ res[t] = "already" /\ Stepped(t)) =>
                /\ pc'[t] \in {"et_unlockparent", "idle"}
                /\ UNCHANGED <<treeVars, extVars, aborted>>]_vars
    /\ [][\A n \in TaskNodes : Ended(n) => endedAt'[n] = endedAt[n]]_vars

\* two goroutines run the same task's DoneFunc: one performs the end, the other
\* finds the task ended
C5_Witness ==
    \E t, u \in Threads :
        /\ this[t] = this[u]
        /\ this[t] \in TaskNodes
        /\ parentTask[this[t]] # Nil
        /\ res[t] = "ended"
        /\ res[u] = "already"

\* ------------------------------------------------------------------ C6
\* C6: a span's DoneFunc called again after the span has ended never panics,
\* and the sink receives no second EndSpan event and no second end callback.
C6_RepeatedEndSpanIsNoOp ==
    /\ \A t \in Threads :
        (pc[t] \in {"es_unlockthis", "es_unlockparent"} /\ Ended(this[t]))
            => res[t] \notin Panics
    /\ \A n \in AttachedSpans :
        /\ Events("EndSpan", n) <= 1
        /\ Events("CallbackEndSpan", n) <= 1

\* ------------------------------------------------------------------ C7
\* tasks whose WithTask has executed metrics.activeTasks.Inc()
GaugeIncremented ==
    {n \in TaskNodes : \A t \in Threads :
        ~(this[t] = n /\ pc[t] \in {"wt_inc", "wt_unlock", "wt_sink", "wt_gauge"})}

\* tasks whose ending DoneFunc call has executed metrics.activeTasks.Dec()
GaugeDecremented ==
    {n \in TaskNodes : Ended(n) /\ \A t \in Threads :
        ~(this[t] = n /\ res[t] = "ended"
          /\ pc[t] \in {"et_dec", "et_unlockthis", "et_unlockparent", "et_sink", "et_gauge"})}

\* tasks whose WithTask has returned
CompletedBeginTask == TaskNodes \cap Returned

\* tasks whose ending DoneFunc call has returned
CompletedEndTask ==
    {n \in TaskNodes : Ended(n) /\ \A t \in Threads : ~(this[t] = n /\ res[t] = "ended")}

\* C7 as claimed: at every instant the gauge is the number of completed WithTask
\* calls minus the number of completed first-time DoneFunc calls.
C7_GaugeIsCompletedCalls ==
    activeTasks = Cardinality(CompletedBeginTask) - Cardinality(CompletedEndTask)

\* C7 as amended: the gauge is the number of WithTask calls that have executed
\* their increment minus the number of ending DoneFunc calls that have executed
\* their decrement; it is never negative; it is completed minus completed
\* whenever no call is in flight.
C7_GaugeCounts ==
    /\ activeTasks = Cardinality(GaugeIncremented) - Cardinality(GaugeDecremented)
    /\ activeTasks >= 0
    /\ (\A t \in Threads : pc[t] = "idle") => C7_GaugeIsCompletedCalls

\* a repeated DoneFunc call is in flight, a refused one has happened, and the
\* gauge counts the one task that is still active
C7_Witness ==
    /\ activeTasks = 1
    /\ aborted
    /\ Cardinality(TaskNodes) = 2
    /\ \E t \in Threads : this[t] \in TaskNodes /\ res[t] = "already"

\* ------------------------------------------------------------------ C8
\* C8: a node has at most one attached child span that has not ended, its
\* activeChildSpan is set exactly when it has one and then points to it;
\* WithSpan on a parent whose activeChildSpan is set panics with
\* AlreadyActiveChildSpan and leaves activeChildSpan as it is, and otherwise
\* attaches the new span.
C8_OneActiveChildSpan ==
    /\ [](\A p \in nodes :
            /\ Cardinality(ActiveChildSpansOf(p)) <= 1
            /\ activeChildSpan[p] # Nil <=> ActiveChildSpansOf(p) # {}
            /\ activeChildSpan[p] # Nil => activeChildSpan[p] \in ActiveChildSpansOf(p))
    /\ [][\A t \in Threads :
            (pc[t] = "ws_lock" /\ Stepped(t)) =>
                IF activeChildSpan[parentSpan[this[t]]] # Nil
                  THEN /\ res'[t] = "AlreadyActiveChildSpan"
                       /\ UNCHANGED activeChildSpan
                  ELSE /\ res'[t] \notin Panics
                       /\ activeChildSpan'[parentSpan[this[t]]] = this[t]]_vars

\* a second WithSpan on a parent with an active child span has been refused
C8_Witness ==
    \E t \in Threads :
        /\ pc[t] = "ws_unlock"
        /\ res[t] = "AlreadyActiveChildSpan"
        /\ activeChildSpan[parentSpan[this[t]]] \in AttachedSpans
        /\ activeChildSpan[parentSpan[this[t]]] # this[t]

SinkPcs == {"wt_sink", "et_sink", "ws_sink", "ws_cb", "es_sink", "es_cb"}

\* C10 as claimed: no chrometrace call and no span callback is made while the
\* calling goroutine holds a node lock.
C10_SinkCallsOutsideLocks ==
    \A t \in Threads : pc[t] \in SinkPcs => Held(t) = {}

\* C10 as amended: WithTask, the task DoneFunc and WithSpan make their
\* chrometrace and callback calls holding no node lock; the span DoneFunc makes
\* its two calls holding the locks of the span and of its parent.
C10_SinkCallsAndLocks ==
    \A t \in Threads :
        /\ pc[t] \in {"wt_sink", "et_sink", "ws_sink", "ws_cb"} => Held(t) = {}
        /\ pc[t] \in {"es_sink", "es_cb"} => Held(t) = {this[t], parentSpan[this[t]]}

\* one goroutine emits EndSpan while another emits EndTask for a child task
C10_Witness ==
    \E t, u \in Threads :
        /\ pc[t] = "es_sink"
        /\ pc[u] = "et_sink"
        /\ parentTask[this[u]] # Nil

\* ------------------------------------------------------------------ stack symbolizer
\* a string is modelled as the sequence of its parts: the symbols of the nodes
\* and the separators put between them
Dollar == <<"$">>
Dot == <<".">>

\* traceNode.id, genID(): one identifier per node
id(n) == <<"id", n>>

\* lines 324-337: the three built-in kinds
StackKinds == {"StackKindId", "SpanStackKindCombined", "SpanStackKindAnnotation"}

symbolizeTask(kind, t) ==
    CASE kind = "StackKindId" -> id(t)
      [] kind = "SpanStackKindCombined" -> <<"(", id(t), annotation[t], ")">>
      [] kind = "SpanStackKindAnnotation" -> annotation[t]

symbolizeSpan(kind, s) ==
    CASE kind = "StackKindId" -> id(s)
      [] kind = "SpanStackKindCombined" -> <<"(", id(s), annotation[s], ")">>
      [] kind = "SpanStackKindAnnotation" -> annotation[s]

\* lines 339-345
task(n) == IF parentSpan[n] = Nil THEN n ELSE parentTask[n]

\* lines 355-358: the loop appends s and continues with s.parentSpan until nil
RECURSIVE spansInTask(_)
spansInTask(s) == IF s = Nil THEN <<>> ELSE <<s>> \o spansInTask(parentSpan[s])

\* lines 360-363: the loop appends t and continues with t.parentTask until nil
RECURSIVE tasks(_)
tasks(t) == IF t = Nil THEN <<>> ELSE <<t>> \o tasks(parentTask[t])

\* lines 365-368: the tasks from the last collected to the first, symbolized
taskIdsRev(kind, n) ==
    LET ts == tasks(task(n))
    IN [i \in 1..Len(ts) |-> symbolizeTask(kind, ts[Len(ts) + 1 - i])]

\* lines 370-373: the collected span chain from the last to the first, symbolized
spanIdsRev(kind, n) ==
    LET ss == spansInTask(n)
    IN [i \in 1..Len(ss) |-> symbolizeSpan(kind, ss[Len(ss) + 1 - i])]

\* strings.Join: the elements with sep between neighbours
RECURSIVE Join(_, _)
Join(elems, sep) ==
    IF Len(elems) = 0 THEN <<>>
    ELSE IF Len(elems) = 1 THEN <<elems[1]>>
    ELSE <<elems[1], sep>> \o Join(Tail(elems), sep)

\* lines 375-376: fmt.Sprintf("%s$%s", taskStack, strings.Join(spanIdsRev, "."))
TaskAndSpanStack(n, kind) ==
    Join(taskIdsRev(kind, n), Dollar) \o <<Dollar>> \o Join(spanIdsRev(kind, n), Dot)

\* the default string a caller passes to GetSpanStackOrDefault
Defaults == {<<"def">>}

\* lines 379-386: ctx is the node the context carries, Nil if it carries none
GetSpanStackOrDefault(ctx, kind, def) ==
    IF ctx # Nil THEN TaskAndSpanStack(ctx, "StackKindId") ELSE def

\* ------------------------------------------------------------------ C11
\* C11: for every returned node and every kind the symbolizer yields the tasks
\* from the root task to the node's task joined by "$", one "$", and the span
\* nodes from the outermost span of that task to the node joined by ".", the
\* task node not being part of the span chain (empty for a task node).
C11_StackOmitsTaskFromSpanChain ==
    LET RECURSIVE TaskChain(_)
        TaskChain(t) == IF t = Nil THEN <<>> ELSE Append(TaskChain(parentTask[t]), t)
        RECURSIVE SpanChain(_)
        SpanChain(s) == IF IsTask(s) THEN <<>> ELSE Append(SpanChain(parentSpan[s]), s)
        TaskSymbols(kind, chain) == [i \in 1..Len(chain) |-> symbolizeTask(kind, chain[i])]
        SpanSymbols(kind, chain) == [i \in 1..Len(chain) |-> symbolizeSpan(kind, chain[i])]
    IN \A n \in Returned, kind \in StackKinds :
        TaskAndSpanStack(n, kind) =
            Join(TaskSymbols(kind, TaskChain(task(n))), Dollar) \o <<Dollar>>
            \o Join(SpanSymbols(kind, SpanChain(n)), Dot)

\* ------------------------------------------------------------------ C12
\* C12: GetSpanStackOrDefault returns the default exactly when the context
\* carries no node, and otherwise the stack of the node rendered with the kind
\* the caller passed.
C12_StackOfPassedKind ==
    \A kind \in StackKinds, def \in Defaults :
        /\ GetSpanStackOrDefault(Nil, kind, def) = def
        /\ \A ctx \in Returned :
            /\ GetSpanStackOrDefault(ctx, kind, def) # def
            /\ GetSpanStackOrDefault(ctx, kind, def) = TaskAndSpanStack(ctx, kind)

\* ------------------------------------------------------------------ C13
\* the base name and the suffix of a task's display name
BaseName(n) == annotation[n][1]
Suffix(n) == annotation[n][2]

\* tasks whose suffix has not been given back to the namer (line 246)
HoldsSuffix == TaskNodes \ CompletedEndTask

\* C13: two tasks with the same base name that have not ended carry different
\* suffixes; the namer's suffixes in use are those of the tasks whose ending
\* DoneFunc call has not passed taskNameDone, so a suffix is released once per
\* task and only after endedAt is set; a new task gets the lowest suffix that
\* no such task of its base name holds.
C13_UniqueTaskNames ==
    /\ [](\A n, m \in TaskNodes :
            (n # m /\ BaseName(n) = BaseName(m) /\ ~Ended(n) /\ ~Ended(m))
                => Suffix(n) # Suffix(m))
    /\ [](\A name \in TaskNames :
            /\ taskNamer[name] = {Suffix(n) : n \in {m \in HoldsSuffix : BaseName(m) = name}}
            /\ \A n, m \in HoldsSuffix :
                (n # m /\ BaseName(n) = name /\ BaseName(m) = name) => Suffix(n) # Suffix(m))
    /\ [][\A t \in Threads, name \in TaskNames :
            (Stepped(t) /\ taskNamer'[name] # taskNamer[name] /\ pc[t] # "wt_new") =>
                /\ pc[t] = "et_namedone"
                /\ Ended(this[t])
                /\ BaseName(this[t]) = name
                /\ taskNamer'[name] = taskNamer[name] \ {Suffix(this[t])}
                /\ Suffix(this[t]) \in taskNamer[name]]_vars
    /\ [][\A t \in Threads :
            (pc[t] = "wt_new" /\ Stepped(t)) =>
                LET name == annotation'[this'[t]][1]
                    suffix == annotation'[this'[t]][2]
                    held == {Suffix(m) : m \in {h \in HoldsSuffix : BaseName(h) = name}}
                IN /\ suffix \notin held
                   /\ \A i \in 0..MaxNodes : i < suffix => i \in held]_vars

\* a task has ended and given back suffix 0 while a task with suffix 1 is
\* active, and a task begun afterwards carries suffix 0 again
C13_Witness ==
    \E a, b, c \in TaskNodes :
        /\ BaseName(a) = BaseName(b) /\ BaseName(b) = BaseName(c)
        /\ a \in CompletedEndTask /\ Suffix(a) = 0
        /\ ~Ended(b) /\ Suffix(b) = 1
        /\ c # a /\ ~Ended(c) /\ Suffix(c) = 0

\* ------------------------------------------------------------------ C14
\* the positions of WithSpan after the node of the context has been found
WithSpanPcs == {"ws_lock", "ws_unlock", "ws_sink", "ws_cb"}

\* C14: WithSpan on a context without a node panics with NotInsideTask at once,
\* holding no lock, and neither that step nor the panic's way out changes the
\* tree, a lock, the gauge, the namer or the sink; WithSpan on a context that
\* carries a node never panics with NotInsideTask.
C14_SpanOutsideTask ==
    /\ [](\A t \in Threads :
            res[t] = "NotInsideTask" => (pc[t] = "panic" /\ this[t] = Nil /\ Held(t) = {}))
    /\ [][\A t \in Threads :
            (Stepped(t) /\ (res'[t] = "NotInsideTask" \/ res[t] = "NotInsideTask")) =>
                UNCHANGED <<treeVars, mtx, extVars>>]_vars
    /\ [][\A t \in Threads :
            (Stepped(t) /\ (pc[t] \in WithSpanPcs \/ pc'[t] \in WithSpanPcs)) =>
                res'[t] # "NotInsideTask"]_vars

\* one WithSpan call has panicked with NotInsideTask while another goroutine's
\* WithSpan on an existing node proceeds
C14_Witness ==
    \E t, u \in Threads :
        /\ pc[t] = "panic" /\ res[t] = "NotInsideTask"
        /\ pc[u] = "ws_sink" /\ this[u] \in AttachedSpans

\* ------------------------------------------------------------------ C15
\* C15: WithTask's walk starts at a task node, steps from a candidate to its
\* parentTask only if the candidate has ended, and inspects every candidate
\* holding its lock; the candidate it stops at becomes the new task's parentTask
\* and has not ended when the node is created nor when its activeChildTasks is
\* incremented, its lock being held from the inspection to the increment; the
\* walk ends without a parent only past an ended root; no task's parentTask
\* ended before the task was started.
C15_ParentIsNearestActiveAncestor ==
    /\ [](\A t \in Threads :
            /\ (pc[t] \in {"wt_lock", "wt_loop", "wt_lockparent", "wt_unlockthis", "wt_new"}
                /\ lParentTask[t] # Nil) => lParentTask[t] \in TaskNodes
            /\ (pc[t] \in {"wt_loop", "wt_unlockthis", "wt_new"} /\ lParentTask[t] # Nil)
                => mtx[lParentTask[t]] = t
            /\ pc[t] \in {"wt_lockparent", "wt_unlockthis"} =>
                (mtx[thisParent[t]] = t /\ Ended(thisParent[t])
                 /\ lParentTask[t] = parentTask[thisParent[t]])
            /\ pc[t] \in {"wt_inc", "wt_unlock"} =>
                (mtx[parentTask[this[t]]] = t /\ ~Ended(parentTask[this[t]])))
    /\ [](\A n \in TaskNodes :
            (parentTask[n] # Nil /\ Ended(parentTask[n]))
                => endedAt[parentTask[n]] >= startedAt[n])
    /\ [][\A t \in Threads :
            (pc[t] = "wt_loop" /\ Stepped(t)) =>
                IF lParentTask[t] # Nil /\ Ended(lParentTask[t])
                  THEN /\ lParentTask'[t] = parentTask[lParentTask[t]]
                       /\ pc'[t] # "wt_new"
                  ELSE /\ lParentTask'[t] = lParentTask[t]
                       /\ pc'[t] = "wt_new"]_vars
    /\ [][\A t \in Threads :
            (pc[t] = "wt_new" /\ Stepped(t)) =>
                /\ parentTask'[this'[t]] = lParentTask[t]
                /\ lParentTask[t] # Nil => ~Ended(lParentTask[t])
                /\ pc'[t] = IF lParentTask[t] # Nil THEN "wt_inc" ELSE "wt_sink"]_vars
    /\ [][\A t \in Threads :
            (pc[t] = "wt_inc" /\ Stepped(t)) =>
                /\ activeChildTasks'[parentTask[this[t]]]
                     = activeChildTasks[parentTask[this[t]]] + 1
                /\ endedAt'[parentTask[this[t]]] = ZeroTime]_vars

\* the walk has passed an ended task and holds both its lock and the lock of
\* the task's parent, which has not ended, while another goroutine is about to
\* call that parent's DoneFunc
C15_Witness ==
    \E t, u \in Threads :
        /\ pc[t] = "wt_unlockthis"
        /\ Ended(thisParent[t])
        /\ lParentTask[t] # Nil
        /\ ~Ended(lParentTask[t])
        /\ Held(t) = {thisParent[t], lParentTask[t]}
        /\ pc[u] = "et_lockthis"
        /\ this[u] = lParentTask[t]

\* ------------------------------------------------------------------ C16
\* the positions of the two DoneFuncs
EndTaskPcs == {"et_lockparent", "et_lockthis", "et_dec", "et_unlockthis",
               "et_unlockparent", "et_sink", "et_gauge", "et_namedone"}
EndSpanPcs == {"es_lockparent", "es_lockthis", "es_sink", "es_cb",
               "es_unlockthis", "es_unlockparent"}

\* the fields of node n that are set at creation only
FixedFields(n) == <<annotation[n], parentTask[n], parentSpan[n], startedAt[n]>>

\* C16: a step of a task's DoneFunc changes at most the task's endedAt and its
\* parentTask's activeChildTasks, a step of a span's DoneFunc at most the span's
\* endedAt and its parentSpan's activeChildSpan, and neither creates or removes
\* a node; no step of any operation changes the annotation, parentTask,
\* parentSpan or startedAt of a node that exists before and after it.
C16_EndOperationsFrame ==
    /\ [][\A t \in Threads :
            (pc[t] \in EndTaskPcs /\ Stepped(t)) =>
                /\ UNCHANGED <<nodes, activeChildSpan>>
                /\ \A m \in NodeIds :
                    /\ m # this[t] => endedAt'[m] = endedAt[m]
                    /\ m # parentTask[this[t]] => activeChildTasks'[m] = activeChildTasks[m]]_vars
    /\ [][\A t \in Threads :
            (pc[t] \in EndSpanPcs /\ Stepped(t)) =>
                /\ UNCHANGED <<nodes, activeChildTasks>>
                /\ \A m \in NodeIds :
                    /\ m # this[t] => endedAt'[m] = endedAt[m]
                    /\ m # parentSpan[this[t]] => activeChildSpan'[m] = activeChildSpan[m]]_vars
    /\ [][\A n \in nodes \cap nodes' : FixedFields(n)' = FixedFields(n)]_vars

\* a task with a parent and a grandparent has been ended by its DoneFunc:
\* the parent's counter is back at 0, the grandparent's still counts the parent
C16_Witness ==
    \E t \in Threads :
        LET n == this[t] IN
        /\ pc[t] = "et_unlockthis"
        /\ res[t] = "ended"
        /\ parentTask[n] # Nil
        /\ parentTask[parentTask[n]] # Nil
        /\ activeChildTasks[parentTask[n]] = 0
        /\ activeChildTasks[parentTask[parentTask[n]]] = 1

\* ------------------------------------------------------------------ C17
\* C17: WithTask creates nodes without parentSpan and WithSpan nodes with one;
\* from every span node the parentSpan links lead, through existing span nodes,
\* to one task node, which is the span's parentTask; a span begun on a task
\* node has that node as parentTask, a span begun on a span node that span's
\* parentTask; the parentTask of a task node is none or a task node, never a
\* span, and the parentTask links of a task node end at a root.
C17_TreeStructure ==
    /\ [](LET RECURSIVE SpanRoot(_)
              SpanRoot(s) == IF parentSpan[s] = Nil THEN s ELSE SpanRoot(parentSpan[s])
          IN \A s \in nodes :
                IsSpan(s) =>
                    /\ parentSpan[s] \in nodes
                    /\ parentTask[s] \in TaskNodes
                    /\ SpanRoot(s) = parentTask[s]
                    /\ parentTask[s] = IF IsTask(parentSpan[s]) THEN parentSpan[s]
                                       ELSE parentTask[parentSpan[s]])
    /\ [](LET RECURSIVE Ancestor(_, _)
              Ancestor(n, k) == IF k = 0 \/ n = Nil THEN n ELSE Ancestor(parentTask[n], k - 1)
          IN \A n \in TaskNodes :
                /\ parentTask[n] # Nil => parentTask[n] \in TaskNodes
                /\ Ancestor(n, MaxNodes) = Nil)
    /\ [](\A t \in Threads : lParentTask[t] # Nil => lParentTask[t] \in TaskNodes)
    /\ [][\A t \in Threads :
            /\ (pc[t] = "wt_new" /\ Stepped(t)) =>
                    (this'[t] \in nodes' \ nodes /\ parentSpan'[this'[t]] = Nil)
            /\ (pc[t] = "idle" /\ pc'[t] = "ws_lock") =>
                    (this'[t] \in nodes' \ nodes /\ parentSpan'[this'[t]] \in Returned)]_vars

\* a returned span nested in a span of a task: its parentTask is that task,
\* two parentSpan links above it
C17_Witness ==
    \E s \in AttachedSpans \cap Returned :
        /\ IsSpan(parentSpan[s])
        /\ parentSpan[s] \in Returned
        /\ parentTask[s] = parentSpan[parentSpan[s]]
        /\ parentTask[s] \in TaskNodes

\* ------------------------------------------------------------------ C18
\* C18 as claimed: for a task C with parentTask P the sink receives BeginTask(P)
\* before BeginTask(C), BeginTask(C) before EndTask(C), and EndTask(C) before
\* EndTask(P).
C18_SinkRespectsNesting ==
    \A c \in TaskNodes :
        /\ Events("EndTask", c) > 0 => Events("BeginTask", c) > 0
        /\ parentTask[c] # Nil =>
            /\ Events("BeginTask", c) > 0 => Events("BeginTask", parentTask[c]) > 0
            /\ Events("EndTask", parentTask[c]) > 0 => Events("EndTask", c) > 0

\* C18 as amended: the sink receives BeginTask(P) before BeginTask(C) and
\* BeginTask(C) before EndTask(C); EndTask(P) is received after C's endedAt was
\* set, which was before P's endedAt was set, and it is received after EndTask(C)
\* unless the DoneFunc call that ended C is still on its way to the sink.
C18_SinkOrder ==
    \A c \in TaskNodes :
        /\ Events("EndTask", c) > 0 => (Events("BeginTask", c) > 0 /\ Ended(c))
        /\ parentTask[c] # Nil =>
            /\ Events("BeginTask", c) > 0 => Events("BeginTask", parentTask[c]) > 0
            /\ Events("EndTask", parentTask[c]) > 0 =>
                /\ Ended(c)
                /\ endedAt[c] < endedAt[parentTask[c]]
                /\ \/ Events("EndTask", c) > 0
                   \/ \E t \in Threads :
                        /\ this[t] = c
                        /\ res[t] = "ended"
                        /\ pc[t] \in {"et_unlockthis", "et_unlockparent", "et_sink"}

\* the sink has received EndTask for a parent task while the DoneFunc call that
\* ended its child task has not yet emitted the child's EndTask
C18_Witness ==
    \E t \in Threads :
        /\ pc[t] = "et_sink"
        /\ parentTask[this[t]] # Nil
        /\ Events("EndTask", parentTask[this[t]]) = 1
        /\ Events("EndTask", this[t]) = 0

\* ------------------------------------------------------------------ C19
\* C19: the panic of line 297 never happens: every attached span that has not
\* ended is the activeChildSpan of its parentSpan, and a set activeChildSpan
\* changes only by being cleared by the DoneFunc of the span it points to, in
\* the step that sets that span's endedAt.
C19_ActiveChildSpanStable ==
    /\ [](\A t \in Threads : res[t] # "ActiveChildSpanChanged")
    /\ [](\A s \in AttachedSpans : ~Ended(s) => activeChildSpan[parentSpan[s]] = s)
    /\ [][\A p \in NodeIds :
            (activeChildSpan[p] # Nil /\ activeChildSpan'[p] # activeChildSpan[p]) =>
                /\ activeChildSpan'[p] = Nil
                /\ \E t \in Threads :
                    /\ pc[t] = "es_lockthis"
                    /\ Stepped(t)
                    /\ this[t] = activeChildSpan[p]
                    /\ parentSpan[this[t]] = p
                    /\ ~Ended(this[t])
                    /\ endedAt'[this[t]] # ZeroTime]_vars

\* a repeated call of an ended span's DoneFunc has passed the check of line 296
\* while its parent's activeChildSpan points to a later span
C19_Witness ==
    \E t \in Threads :
        /\ pc[t] = "es_lockthis"
        /\ Ended(this[t])
        /\ activeChildSpan[parentSpan[this[t]]] \in AttachedSpans \ {this[t]}

====
